---- MODULE Spec2Model ----
(***************************************************************************)
(* Model of the A11y overlay content script (class A11yOverlay in          *)
(* src/frontend/a11y-extension/popup.js): the element scanner, the         *)
(* selector generator, the session state, the analysis orchestrator and    *)
(* the action executor.                                                    *)
(*                                                                         *)
(* Strings of the DOM (ids, class names, attribute values, texts,          *)
(* selectors) are sequences of symbols.  String concatenation is \o, so a  *)
(* generated selector is really built from the element's id or classes     *)
(* and really parsed again by querySelector.                               *)
(***************************************************************************)
EXTENDS Integers, Sequences, FiniteSets, TLC

(* ------------------------------ bounds --------------------------------- *)
\* largest number of elements of the page
MaxDom == 2
\* height of the viewport (window.innerHeight), in layout units
InnerHeight == 4
\* number of analyzeCurrentPage invocations a behaviour may start
MaxInv == 2
\* how deep synthetic clicks may nest before the engine reports
\* "Maximum call stack size exceeded"
MaxDepth == 2
\* largest number of actions in a backend response
MaxActions == 1
\* largest element_index a backend response carries
MaxIndex == 2
\* the user runs an action only while fewer timers than this are pending
MaxPending == 1
\* how far the page can be scrolled down, in layout units
MaxScroll == 1
\* how many elements more than the scanner's cap a long page may have
MaxExtra == 3
\* largest number of results in one speech recognition event
MaxResults == 2

(* ------------------------- program constants --------------------------- *)
\* elements.slice(0, 50)
MaxElements == 50
\* textContent.trim().substring(0, 100)
TextLimit == 100

Min(a, b) == IF a < b THEN a ELSE b

\* F applied to the value of e, e being evaluated once
With(e, F(_)) == CHOOSE r \in {F(x) : x \in {e}} : TRUE

(* ------------------------------ strings -------------------------------- *)
AttrOpen  == "[data-testid=\""
AttrClose == "\"]"
\* symbols that are not part of a CSS identifier
Special == {"#", ".", ":", " ", AttrOpen, AttrClose}
IsName(tok) == tok \notin Special

\* String.prototype.trim
RECURSIVE TrimLeft(_)
TrimLeft(s) == IF s # <<>> /\ Head(s) = " " THEN TrimLeft(Tail(s)) ELSE s
RECURSIVE TrimRight(_)
TrimRight(s) ==
    IF s # <<>> /\ s[Len(s)] = " " THEN TrimRight(SubSeq(s, 1, Len(s) - 1)) ELSE s
Trim(s) == TrimRight(TrimLeft(s))
\* String.prototype.substring(0, n)
Substring0(s, n) == SubSeq(s, 1, Min(Len(s), n))

(* ------------------------------ elements ------------------------------- *)
\* An element is a record
\*   node        its identity
\*   tag         lowercase tag name
\*   attrs       the attributes it has (a function from names to strings)
\*   classes     its classList, a sequence of strings
\*   textContent its text
\*   display, visibility, opacity   computed style
\*   x, y, width, height, fixed     layout box: page coordinates, or
\*                                  viewport coordinates if fixed
HasAttr(el, name) == name \in DOMAIN el.attrs
\* the attribute is present and not the empty string (a truthy getAttribute)
Truthy(el, name) == HasAttr(el, name) /\ el.attrs[name] # <<>>
AttrIs(el, name, val) == HasAttr(el, name) /\ el.attrs[name] = val
\* element.id
IdOf(el) == IF HasAttr(el, "id") THEN el.attrs["id"] ELSE <<>>
\* el.type || ''
TypeOf(el) ==
    IF el.tag = "button" THEN <<"submit">>
    ELSE IF el.tag = "input"
         THEN (IF Truthy(el, "type") THEN el.attrs["type"] ELSE <<"text">>)
    ELSE <<>>

\* the selector list of captureDomElements
MatchesCategory(el) ==
    \/ el.tag = "button" /\ ~HasAttr(el, "disabled")
    \/ el.tag = "a" /\ HasAttr(el, "href") /\ ~AttrIs(el, "href", <<"#">>)
    \/ el.tag = "input" /\ ~AttrIs(el, "type", <<"hidden">>) /\ ~HasAttr(el, "disabled")
    \/ el.tag = "select" /\ ~HasAttr(el, "disabled")
    \/ el.tag = "textarea" /\ ~HasAttr(el, "disabled")
    \/ AttrIs(el, "role", <<"button">>)
    \/ AttrIs(el, "role", <<"link">>)
    \/ HasAttr(el, "tabindex") /\ ~AttrIs(el, "tabindex", <<"-1">>)

\* el.getBoundingClientRect(): viewport coordinates
RectOf(el, scr) ==
    LET top  == IF el.fixed THEN el.y ELSE el.y - scr.y
        left == IF el.fixed THEN el.x ELSE el.x - scr.x
    IN [x |-> left, y |-> top, left |-> left, top |-> top,
        width |-> el.width, height |-> el.height, bottom |-> top + el.height]

IsVisibleNoBottom(el, scr) ==
    LET rect == RectOf(el, scr)
    IN /\ el.display # "none"
       /\ el.visibility # "hidden"
       /\ el.opacity # "0"
       /\ rect.width > 0
       /\ rect.height > 0
       /\ rect.top < InnerHeight

\* the isVisible test of captureDomElements
IsVisible(el, scr) ==
    LET rect == RectOf(el, scr)
    IN /\ el.display # "none"
       /\ el.visibility # "hidden"
       /\ el.opacity # "0"
       /\ rect.width > 0
       /\ rect.height > 0
       /\ rect.top < InnerHeight
       /\ rect.bottom > 0

\* the text/label priority chain of captureDomElements
TextOf(el) ==
    IF Trim(el.textContent) # <<>> THEN Substring0(Trim(el.textContent), TextLimit)
    ELSE IF Truthy(el, "aria-label") THEN el.attrs["aria-label"]
    ELSE IF Truthy(el, "placeholder") THEN el.attrs["placeholder"]
    ELSE IF Truthy(el, "value") THEN el.attrs["value"]
    ELSE IF Truthy(el, "alt") THEN el.attrs["alt"]
    ELSE IF Truthy(el, "title") THEN el.attrs["title"]
    ELSE <<>>

\* Array.prototype.join('.') of the class list
RECURSIVE JoinDot(_)
JoinDot(cls) ==
    IF cls = <<>> THEN <<>>
    ELSE IF Len(cls) = 1 THEN cls[1]
    ELSE cls[1] \o <<".">> \o JoinDot(Tail(cls))

generateSelector(el) ==
    IF IdOf(el) # <<>> THEN <<"#">> \o IdOf(el)
    ELSE IF Truthy(el, "data-testid")
         THEN <<AttrOpen>> \o el.attrs["data-testid"] \o <<AttrClose>>
    ELSE IF Len(el.classes) > 0 THEN <<".">> \o JoinDot(el.classes)
    ELSE <<el.tag>>

\* the object pushed for one visible candidate; index is forEach's index.
\* el is not a field of the program's descriptor: it records which node
\* the descriptor was built from.
Descriptor(el, index, scr) ==
    LET rect == RectOf(el, scr)
    IN [index    |-> index,
        tag      |-> el.tag,
        text     |-> TextOf(el),
        type     |-> TypeOf(el),
        id       |-> IdOf(el),
        classes  |-> el.classes,
        selector |-> generateSelector(el),
        bounds   |-> [x |-> rect.x + scr.x, y |-> rect.y + scr.y,
                      width |-> rect.width, height |-> rect.height],
        el       |-> el.node]

\* document.querySelectorAll(selectors): the candidates in document order
Candidates(doc) == SelectSeq(doc, MatchesCategory)

\* the descriptors pushed by the forEach, as a function of the candidates
Pushed(cands, scr) ==
    LET vis == SelectSeq([i \in 1..Len(cands) |-> i], LAMBDA i : IsVisible(cands[i], scr))
    IN [k \in 1..Len(vis) |-> Descriptor(cands[vis[k]], vis[k] - 1, scr)]

\* a scan that returns every descriptor pushed
captureDomElementsUncut(doc, scr) == Pushed(Candidates(doc), scr)

captureDomElements(doc, scr) ==
    LET elements == Pushed(Candidates(doc), scr)
    IN SubSeq(elements, 1, Min(Len(elements), MaxElements))

(* ------------------------- document.querySelector ---------------------- *)
\* A compound selector parsed into its parts; ok = FALSE is a SyntaxError.
NoParts == [ok |-> TRUE, tag |-> <<>>, ids |-> {}, classes |-> {}, testids |-> {}]

\* position of the first AttrClose in toks, 0 if there is none
RECURSIVE CloseAt(_, _)
CloseAt(toks, i) ==
    IF i > Len(toks) THEN 0
    ELSE IF toks[i] = AttrClose THEN i
    ELSE CloseAt(toks, i + 1)

RECURSIVE ParseParts(_, _)
ParseParts(toks, acc) ==
    IF toks = <<>> THEN acc
    ELSE IF Head(toks) = "#" /\ Len(toks) >= 2 /\ IsName(toks[2])
         THEN ParseParts(SubSeq(toks, 3, Len(toks)),
                         [acc EXCEPT !.ids = @ \cup {<<toks[2]>>}])
    ELSE IF Head(toks) = "." /\ Len(toks) >= 2 /\ IsName(toks[2])
         THEN ParseParts(SubSeq(toks, 3, Len(toks)),
                         [acc EXCEPT !.classes = @ \cup {<<toks[2]>>}])
    ELSE IF Head(toks) = AttrOpen /\ CloseAt(toks, 2) > 0
         THEN LET c == CloseAt(toks, 2)
              IN ParseParts(SubSeq(toks, c + 1, Len(toks)),
                            [acc EXCEPT !.testids = @ \cup {SubSeq(toks, 2, c - 1)}])
    ELSE [acc EXCEPT !.ok = FALSE]

ParseSelector(sel) ==
    IF sel = <<>> THEN [NoParts EXCEPT !.ok = FALSE]
    ELSE IF IsName(Head(sel))
         THEN ParseParts(Tail(sel), [NoParts EXCEPT !.tag = <<Head(sel)>>])
    ELSE ParseParts(sel, NoParts)

MatchesParts(el, p) ==
    /\ p.tag # <<>> => p.tag = <<el.tag>>
    /\ \A i \in p.ids : IdOf(el) = i
    /\ \A c \in p.classes : \E k \in 1..Len(el.classes) : el.classes[k] = c
    /\ \A t \in p.testids : AttrIs(el, "data-testid", t)

\* document.querySelector(sel) for a selector that parses:
\* the positions in doc of the matching elements, the first is the answer
MatchesOf(doc, sel) ==
    LET p == ParseSelector(sel)
    IN SelectSeq([i \in 1..Len(doc) |-> i], LAMBDA i : MatchesParts(doc[i], p))


(* ------------------------------ the page ------------------------------- *)
PageNode(i) == <<"page", i>>
TriggerNode == <<"trigger", 0>>
AnalyzeNode == <<"analyze", 0>>
ActNode(k)  == <<"act", k>>
NoNode      == <<"none", 0>>

\* a visible block-level element of height 1 at the top of the page
BaseEl ==
    [node |-> NoNode, tag |-> "button", attrs |-> <<>>, classes |-> <<>>,
     textContent |-> <<"O", "K">>, display |-> "block", visibility |-> "visible",
     opacity |-> "1", x |-> 0, y |-> 0, width |-> 1, height |-> 1, fixed |-> FALSE]

\* the kinds of element a modelled page is made of
ElA == [BaseEl EXCEPT !.attrs = ("id" :> <<"a">>)]
ElB == [BaseEl EXCEPT !.attrs = ("id" :> <<"b">>), !.classes = << <<"btn">> >>]
\* a candidate that is not rendered
ElHidden == [BaseEl EXCEPT !.display = "none", !.classes = << <<"btn">> >>]
\* an id that is not a CSS identifier: '#x.y' selects id x with class y
ElDotId == [BaseEl EXCEPT !.attrs = ("id" :> <<"x", ".", "y">>)]
\* a class that is not a CSS identifier: '.md:flex' is a SyntaxError
ElColonClass ==
    [BaseEl EXCEPT !.tag = "a", !.attrs = ("href" :> <<"/p">>),
                   !.classes = << <<"md", ":", "flex">> >>]
PagePool == {ElB, ElHidden, ElDotId}

(* ----------------------------- the overlay ----------------------------- *)
VARIABLES
    dom,          \* the elements of the page, in document order
    scroll,       \* window.scrollX / window.scrollY
    h2cLoaded,    \* typeof html2canvas !== 'undefined'
    panelActive,  \* this.panel.classList.contains('active')
    btn,          \* the #analyze-btn node: attached, label (innerHTML), disabled
    content,      \* what #a11y-actions holds: "initial", "actions", "empty", "error"
    rendered,     \* the actions of the buttons displayActions appended
    state,        \* this.state: sessionId, currentPage, actions
    origin,       \* history: the invocation whose response each part came from
    invs,         \* the analyzeCurrentPage invocations, in order of start
    submitted,    \* history: the scan sent with the request whose actions are rendered,
                  \* and whether the page has changed since that scan
    lastDone,     \* history: the invocation that completed last, its 2xx body if any
    timers,       \* the pending timers in the order they will fire, each
                  \* highlight and notification timer with the node it removes
    log,          \* history: what the handler run by the last step did, in order
    scanResult    \* history: the result of a scan of the document as it is now, if valid

vars == <<dom, scroll, h2cLoaded, panelActive, btn, content, rendered, state, origin,
          invs, submitted, lastDone, timers, log, scanResult>>

\* the part of the state the synchronous handlers read and write
Snap ==
    [panelActive |-> panelActive, btn |-> btn, content |-> content,
     rendered |-> rendered, state |-> state, origin |-> origin, invs |-> invs,
     submitted |-> submitted, lastDone |-> lastDone, timers |-> timers,
     log |-> <<>>, thrown |-> FALSE, capped |-> FALSE]

Commit(s) ==
    /\ panelActive' = s.panelActive
    /\ btn' = s.btn
    /\ content' = s.content
    /\ rendered' = s.rendered
    /\ state' = s.state
    /\ origin' = s.origin
    /\ invs' = s.invs
    /\ submitted' = s.submitted
    /\ lastDone' = s.lastDone
    /\ timers' = s.timers
    /\ log' = s.log

\* action.confidence > 0.7, in tenths
PrimaryTenths == 7
IsPrimary(action) == action.confidence10 > PrimaryTenths

\* Layout of the overlay (widget.css): the trigger button is fixed in the
\* viewport; the panel is rendered only while it has class 'active'.
PanelBox(s) == IF s.panelActive THEN 1 ELSE 0

TriggerEl ==
    [BaseEl EXCEPT !.node = TriggerNode, !.classes = << <<"a11y-trigger-btn">> >>,
                   !.attrs = ("title" :> <<"A11y Assistant">>),
                   !.textContent = <<"mic">>, !.fixed = TRUE]

LabelText(label) ==
    CASE label = "analyze"   -> <<"Analyze This Page">>
      [] label = "analyzing" -> <<"Analyzing...">>
      [] label = "failed"    -> <<"Failed - Try Again">>

AnalyzeEl(s) ==
    [BaseEl EXCEPT !.node = AnalyzeNode,
                   !.attrs = IF s.btn.disabled
                             THEN ("id" :> <<"analyze-btn">>) @@ ("disabled" :> <<>>)
                             ELSE ("id" :> <<"analyze-btn">>),
                   !.classes = << <<"a11y-action-btn">>, <<"primary">> >>,
                   !.textContent = LabelText(s.btn.label),
                   !.fixed = TRUE, !.width = PanelBox(s), !.height = PanelBox(s)]

ActionEl(s, k) ==
    [BaseEl EXCEPT !.node = ActNode(k),
                   !.classes = IF IsPrimary(s.rendered[k])
                               THEN << <<"a11y-action-btn">>, <<"primary">> >>
                               ELSE << <<"a11y-action-btn">> >>,
                   !.textContent = s.rendered[k].label,
                   !.fixed = TRUE, !.width = PanelBox(s), !.height = PanelBox(s)]

\* the elements of the document in document order: the page, then the
\* overlay root appended to document.body
Document(s) ==
    dom \o <<TriggerEl>>
        \o (IF s.btn.attached THEN <<AnalyzeEl(s)>> ELSE <<>>)
        \o [k \in 1..Len(s.rendered) |-> ActionEl(s, k)]


(* --------------------------- synchronous code -------------------------- *)
\* an entry of log: what was done, to which node, with which text or
\* number, by the executeAction call nested at which depth
Ev(kind, node, msg, num, depth) ==
    [ev |-> kind, node |-> node, msg |-> msg, num |-> num, depth |-> depth]

\* A pending timer: its kind; for a notification the text of its node; for
\* a highlight the highlighted node, the box drawn, and whether the box is
\* still in the document.
NoBox == [left |-> 0, top |-> 0, width |-> 0, height |-> 0]
CollapseTimer == [kind |-> "collapse", msg |-> <<>>, node |-> NoNode, box |-> NoBox,
                  present |-> FALSE]
NoteTimer(msg) == [CollapseTimer EXCEPT !.kind = "note", !.msg = msg, !.present = TRUE]
HighlightTimer(node, box) ==
    [CollapseTimer EXCEPT !.kind = "highlight", !.node = node, !.box = box,
                          !.present = TRUE]

FailedMsg == <<"Failed to execute action">>
ClickedMsg(action) == <<"Clicked: ">> \o action.label

showNotification(s, msg, depth) ==
    [s EXCEPT !.timers = Append(@, NoteTimer(msg)),
              !.log = Append(@, Ev("notify", NoNode, msg, 0, depth))]

\* no scan goes with what the panel shows
NoSubmitted == [scan |-> <<>>, stale |-> FALSE]
\* no 2xx body
NoBody == [session_id |-> <<"null", 0>>, hasAnalysis |-> FALSE, hasActions |-> FALSE,
           actions |-> <<>>]

\* the catch block of analyzeCurrentPage for invocation i: it looks
\* #analyze-btn up again, and the TypeError of a null button escapes
analyzeCatch(s, i) ==
    IF ~s.btn.attached
    THEN [s EXCEPT !.invs[i].pc = "escaped", !.invs[i].scan = <<>>,
                   !.lastDone = [inv |-> i, body |-> NoBody]]
    ELSE [s EXCEPT !.btn = [attached |-> FALSE, label |-> "failed", disabled |-> FALSE],
                   !.content = "error", !.rendered = <<>>, !.origin.rendered = 0,
                   !.submitted = NoSubmitted,
                   !.invs[i].pc = "failed", !.invs[i].scan = <<>>,
                   !.lastDone = [inv |-> i, body |-> NoBody]]

\* analyzeCurrentPage up to its first await that really suspends
analyzeStart(s) ==
    LET i == Len(s.invs) + 1
        inv == [pc |-> IF h2cLoaded THEN "shot" ELSE "load",
                originalText |-> s.btn.label, scan |-> <<>>, stale |-> FALSE]
    IN IF Len(s.invs) >= MaxInv THEN [s EXCEPT !.capped = TRUE]
       ELSE IF ~s.btn.attached
            THEN analyzeCatch([s EXCEPT !.invs = Append(@, [inv EXCEPT !.pc = "start"])], i)
       ELSE [s EXCEPT !.invs = Append(@, inv),
                      !.btn.label = "analyzing", !.btn.disabled = TRUE]

\* A variant of togglePanel that analyses the page whenever it opens the
\* panel, whether or not an analysis is stored.
togglePanelAlways(s) ==
    With([s EXCEPT !.log = Append(@, Ev("toggle", NoNode, <<>>, 0, 0))], LAMBDA s1 :
      IF s1.panelActive THEN [s1 EXCEPT !.panelActive = FALSE]
      ELSE analyzeStart([s1 EXCEPT !.panelActive = TRUE]))

\* the log entry records that togglePanel was called
togglePanel(s) ==
    With([s EXCEPT !.log = Append(@, Ev("toggle", NoNode, <<>>, 0, 0))], LAMBDA s1 :
      IF s1.panelActive THEN [s1 EXCEPT !.panelActive = FALSE]
      ELSE IF s1.state.currentPage \in {"null", "undefined"}
           THEN analyzeStart([s1 EXCEPT !.panelActive = TRUE])
      ELSE [s1 EXCEPT !.panelActive = TRUE])

displayActions(s, actions, i) ==
    IF Len(actions) = 0
    THEN [s EXCEPT !.btn.attached = FALSE, !.content = "empty", !.rendered = <<>>,
                   !.origin.rendered = i]
    ELSE [s EXCEPT !.btn.attached = FALSE, !.content = "actions", !.rendered = actions,
                   !.origin.rendered = i]

\* the box highlightElement draws around el
HighlightBox(el) ==
    LET rect == RectOf(el, scroll)
    IN [left |-> rect.left + scroll.x, top |-> rect.top + scroll.y,
        width |-> rect.width, height |-> rect.height]

\* A variant of highlightElement that takes the last element matching the
\* selector, not the first as querySelector does.
highlightElementLast(s, elementIndex, depth) ==
    With([s EXCEPT !.timers = [j \in 1..Len(s.timers) |->
                                 IF s.timers[j].kind = "highlight"
                                 THEN [s.timers[j] EXCEPT !.present = FALSE]
                                 ELSE s.timers[j]]],
         LAMBDA cleared :
    With(Document(cleared), LAMBDA doc :
    With(captureDomElements(doc, scroll), LAMBDA elements :
      IF ~(elementIndex < Len(elements)) THEN cleared
      ELSE IF elementIndex < 0 THEN [cleared EXCEPT !.thrown = TRUE]
      ELSE With(elements[elementIndex + 1].selector, LAMBDA sel :
             IF ~ParseSelector(sel).ok THEN [cleared EXCEPT !.thrown = TRUE]
             ELSE With(MatchesOf(doc, sel), LAMBDA found :
                    IF found = <<>> THEN cleared
                    ELSE [cleared EXCEPT
                            !.timers = Append(@, HighlightTimer(doc[found[Len(found)]].node,
                                                   HighlightBox(doc[found[Len(found)]]))),
                            !.log = Append(@, Ev("highlight", doc[found[Len(found)]].node,
                                                 <<>>, elementIndex, depth))])))))

highlightElement(s, elementIndex, depth) ==
    With([s EXCEPT !.timers = [j \in 1..Len(s.timers) |->
                                 IF s.timers[j].kind = "highlight"
                                 THEN [s.timers[j] EXCEPT !.present = FALSE]
                                 ELSE s.timers[j]]],
         LAMBDA cleared :
    With(Document(cleared), LAMBDA doc :
    With(captureDomElements(doc, scroll), LAMBDA elements :
      IF ~(elementIndex < Len(elements)) THEN cleared
      ELSE IF elementIndex < 0 THEN [cleared EXCEPT !.thrown = TRUE]
      ELSE With(elements[elementIndex + 1].selector, LAMBDA sel :
             IF ~ParseSelector(sel).ok THEN [cleared EXCEPT !.thrown = TRUE]
             ELSE With(MatchesOf(doc, sel), LAMBDA found :
                    IF found = <<>> THEN cleared
                    ELSE [cleared EXCEPT
                            !.timers = Append(@, HighlightTimer(doc[found[1]].node,
                                                   HighlightBox(doc[found[1]]))),
                            !.log = Append(@, Ev("highlight", doc[found[1]].node, <<>>,
                                                 elementIndex, depth))])))))

\* the catch block of executeAction
executeCatch(s, depth) == showNotification([s EXCEPT !.thrown = FALSE], FailedMsg, depth)

\* A variant of the end of the try block that also forgets the analysis,
\* so that the next opening of the panel analyses the page again.
scheduleCollapseReset(s, depth) ==
    [s EXCEPT !.timers = Append(@, CollapseTimer),
              !.log = Append(@, Ev("timer", NoNode, <<>>, 0, depth)),
              !.state.currentPage = "null"]

\* setTimeout(..., 1000) at the end of the try block
scheduleCollapse(s, depth) ==
    [s EXCEPT !.timers = Append(@, CollapseTimer),
              !.log = Append(@, Ev("timer", NoNode, <<>>, 0, depth))]

RECURSIVE executeAction(_, _, _, _)
\* element.click() on the node el of the document
click(s, el, depth, ovfNotifies) ==
    With([s EXCEPT !.log = Append(@, Ev("click", el.node, <<>>, 0, depth))], LAMBDA s1 :
      IF HasAttr(el, "disabled") THEN s1
      ELSE IF el.node = TriggerNode THEN togglePanel(s1)
      ELSE IF el.node = AnalyzeNode THEN analyzeStart(s1)
      ELSE IF el.node[1] = "act"
           THEN (IF depth >= MaxDepth
                 THEN (IF ovfNotifies THEN showNotification(s1, FailedMsg, depth + 1)
                       ELSE s1)
                 ELSE executeAction(s1, s1.rendered[el.node[2]], depth + 1, ovfNotifies))
      ELSE s1)

executeAction(s, action, depth, ovfNotifies) ==
    With([s EXCEPT !.log = Append(@, IF action.hasIndex
                                     THEN Ev("execute", NoNode, action.label,
                                             action.element_index, depth)
                                     ELSE Ev("executeNoIndex", NoNode, action.label,
                                             0, depth))], LAMBDA s0 :
    With(IF action.hasIndex THEN highlightElement(s0, action.element_index, depth) ELSE s0,
         LAMBDA h :
      IF h.thrown THEN executeCatch(h, depth)
      ELSE
    With(Document(h), LAMBDA doc :
    With(captureDomElements(doc, scroll), LAMBDA elements :
    With([h EXCEPT !.log = Append(@, Ev("scan", NoNode, <<>>, Len(elements), depth))],
         LAMBDA h1 :
      IF ~(action.hasIndex /\ action.element_index < Len(elements))
      THEN scheduleCollapse(h1, depth)
      ELSE IF action.element_index < 0 THEN executeCatch(h1, depth)
      ELSE With(elements[action.element_index + 1].selector, LAMBDA sel :
             IF ~ParseSelector(sel).ok THEN executeCatch(h1, depth)
             ELSE With(MatchesOf(doc, sel), LAMBDA found :
                    IF found = <<>> THEN scheduleCollapse(h1, depth)
                    ELSE With(click(h1, doc[found[1]], depth, ovfNotifies), LAMBDA c :
                           scheduleCollapse(
                               showNotification(c, ClickedMsg(action), depth),
                               depth)))))))))

(* ------------------------------ the backend ---------------------------- *)
Act(k, c) ==
    [label |-> IF c > PrimaryTenths THEN <<"Buy">> ELSE <<"More">>,
     hasIndex |-> TRUE, element_index |-> k, confidence10 |-> c]
\* an action without element_index
NoIndexAct == [Act(0, 5) EXCEPT !.hasIndex = FALSE, !.label = <<"Info">>]
ActionPool == {Act(k, 9) : k \in -1..MaxIndex} \cup {NoIndexAct}
ActionLists == UNION {[1..n -> ActionPool] : n \in 0..MaxActions}
\* the backend gives every request a session id of its own
SessionId(i) == <<"session", i>>

\* the JSON bodies of 2xx responses: session_id, analysis (or none),
\* analysis.actions (or none)
Responses(i) ==
    {[session_id |-> SessionId(i), hasAnalysis |-> TRUE, hasActions |-> TRUE, actions |-> a] :
        a \in ActionLists}
    \cup {[session_id |-> SessionId(i), hasAnalysis |-> ha, hasActions |-> FALSE,
           actions |-> <<>>] : ha \in BOOLEAN}

(* ------------------------------- Init ---------------------------------- *)
\* again: the scan was made right after another one, nothing having changed
NoScan == [valid |-> FALSE, elements |-> <<>>, again |-> FALSE]

Doms(pool) ==
    UNION {{[i \in 1..n |-> [f[i] EXCEPT !.node = PageNode(i)]] : f \in [1..n -> pool]} :
           n \in 0..MaxDom}

InitOverlay ==
    /\ scroll = [x |-> 0, y |-> 0]
    /\ panelActive = FALSE
    /\ btn = [attached |-> TRUE, label |-> "analyze", disabled |-> FALSE]
    /\ content = "initial"
    /\ rendered = <<>>
    /\ state = [sessionId |-> <<"null", 0>>, currentPage |-> "null", actions |-> <<>>]
    /\ origin = [sessionId |-> 0, actions |-> 0, rendered |-> 0]
    /\ invs = <<>>
    /\ submitted = NoSubmitted
    /\ lastDone = [inv |-> 0, body |-> NoBody]
    /\ timers = <<>>
    /\ log = <<>>
    /\ scanResult = NoScan

Init ==
    /\ dom \in Doms(PagePool)
    /\ h2cLoaded = FALSE
    /\ InitOverlay

(* ------------------------------ actions -------------------------------- *)
Page == <<dom, scroll, h2cLoaded, scanResult>>

\* chrome.runtime.onMessage: {action: 'analyzePage'}
AnalyzePageMessage ==
    \E r \in {analyzeStart(Snap)} : ~r.capped /\ Commit(r) /\ UNCHANGED Page

\* click on the trigger button, or {action: 'toggleWidget'}
TogglePanel ==
    \E r \in {togglePanel(Snap)} : ~r.capped /\ Commit(r) /\ UNCHANGED Page

\* the injected html2canvas script loads
LoadResolve(i) ==
    /\ invs[i].pc = "load"
    /\ h2cLoaded' = TRUE
    /\ invs' = [invs EXCEPT ![i].pc = "shot"]
    /\ log' = <<>>
    /\ UNCHANGED <<dom, scroll, panelActive, btn, content, rendered, state, origin,
                   submitted, lastDone, timers, scanResult>>

\* the injected script fails to load
LoadReject(i) ==
    /\ invs[i].pc = "load"
    /\ \E r \in {analyzeCatch(Snap, i)} : Commit(r)
    /\ UNCHANGED Page

\* the screenshot is ready: scan the DOM and send the request
ShotResolve(i) ==
    /\ invs[i].pc = "shot"
    /\ invs' = [invs EXCEPT ![i].pc = "fetch",
                            ![i].scan = captureDomElements(Document(Snap), scroll)]
    /\ log' = <<>>
    /\ UNCHANGED <<dom, scroll, h2cLoaded, panelActive, btn, content, rendered, state,
                   origin, submitted, lastDone, timers, scanResult>>

\* html2canvas rejects
ShotReject(i) ==
    /\ invs[i].pc = "shot"
    /\ \E r \in {analyzeCatch(Snap, i)} : Commit(r)
    /\ UNCHANGED Page

\* fetch rejects, or the response is not ok: sendToBackend throws
FetchFail(i) ==
    /\ invs[i].pc = "fetch"
    /\ \E r \in {analyzeCatch(Snap, i)} : Commit(r)
    /\ UNCHANGED Page

\* A variant of the continuation below in which a response to a request
\* issued before the one the session came from is dropped: the latest
\* request wins, not the last response.
analyzeResumeLatestRequest(s, i, r) ==
    LET s1 == [s EXCEPT !.state.sessionId = r.session_id,
                        !.origin.sessionId = i,
                        !.state.currentPage = IF r.hasAnalysis THEN "analysis" ELSE "undefined"]
        acts == IF r.hasActions THEN r.actions ELSE <<>>
        s2 == [s1 EXCEPT !.state.actions = acts, !.origin.actions = i]
        s3 == displayActions(s2, s2.state.actions, i)
        done == [btn |-> [s.btn EXCEPT !.label = s.invs[i].originalText, !.disabled = FALSE],
                 invs |-> [s.invs EXCEPT ![i].pc = "ok", ![i].scan = <<>>],
                 lastDone |-> [inv |-> i, body |-> r]]
    IN IF s.origin.sessionId > i /\ r.hasAnalysis
         THEN [s EXCEPT !.btn = done.btn, !.invs = done.invs, !.lastDone = done.lastDone]
       ELSE IF ~r.hasAnalysis THEN analyzeCatch(s1, i)
       ELSE [s3 EXCEPT !.btn = done.btn,
                       !.submitted = [scan |-> s.invs[i].scan, stale |-> s.invs[i].stale],
                       !.invs = done.invs, !.lastDone = done.lastDone]

\* lines 180..189 of analyzeCurrentPage with the parsed body r
analyzeResume(s, i, r) ==
    LET s1 == [s EXCEPT !.state.sessionId = r.session_id,
                        !.origin.sessionId = i,
                        !.state.currentPage = IF r.hasAnalysis THEN "analysis" ELSE "undefined"]
        acts == IF r.hasActions THEN r.actions ELSE <<>>
        s2 == [s1 EXCEPT !.state.actions = acts, !.origin.actions = i]
        s3 == displayActions(s2, s2.state.actions, i)
    IN IF ~r.hasAnalysis THEN analyzeCatch(s1, i)
       ELSE [s3 EXCEPT !.btn.label = s.invs[i].originalText, !.btn.disabled = FALSE,
                       !.submitted = [scan |-> s.invs[i].scan, stale |-> s.invs[i].stale],
                       !.invs[i].pc = "ok", !.invs[i].scan = <<>>,
                       !.lastDone = [inv |-> i, body |-> r]]

\* the backend answers 2xx with body r
Response(i, r) ==
    /\ invs[i].pc = "fetch"
    /\ \E t \in {analyzeResume(Snap, i, r)} : Commit(t)
    /\ UNCHANGED Page

\* The timers a handler has set, put in firing order among the n timers
\* that were pending before it ran.  Those set by one handler are set at the
\* same instant: its 1 s timers fire before its 3 s timers, in the order
\* they were set, after every pending 1 s timer and after the first cut
\* pending timers; its 3 s timers fire after every pending timer.
IsCollapse(t) == t.kind = "collapse"
IsNotCollapse(t) == t.kind # "collapse"
Schedule(all, n, cut) ==
    LET new == SubSeq(all, n + 1, Len(all))
    IN SubSeq(all, 1, cut) \o SelectSeq(new, IsCollapse)
       \o SubSeq(all, cut + 1, n) \o SelectSeq(new, IsNotCollapse)

\* the user clicks the k-th rendered action button
ExecuteAction(k, ovfNotifies, cut) ==
    /\ panelActive
    /\ k \in 1..Len(rendered)
    /\ Len(timers) < MaxPending
    /\ cut \in 0..Len(timers)
    /\ \A j \in (cut + 1)..Len(timers) : timers[j].kind # "collapse"
    /\ \E r \in {executeAction(Snap, rendered[k], 0, ovfNotifies)} :
          /\ ~r.capped
          /\ Commit([r EXCEPT !.timers = Schedule(r.timers, Len(timers), cut)])
    /\ UNCHANGED Page

\* A variant of the highlight timer that removes every highlight box of
\* the document, not only its own.
HighlightTimeoutAll ==
    /\ timers # <<>> /\ Head(timers).kind = "highlight"
    /\ timers' = [j \in 1..(Len(timers) - 1) |->
                     IF timers[j + 1].kind = "highlight"
                     THEN [timers[j + 1] EXCEPT !.present = FALSE]
                     ELSE timers[j + 1]]
    /\ log' = <<>>
    /\ UNCHANGED <<dom, scroll, h2cLoaded, panelActive, btn, content, rendered, state,
                   origin, invs, submitted, lastDone, scanResult>>

\* setTimeout(() => highlight.remove(), 3000)
HighlightTimeout ==
    /\ timers # <<>> /\ Head(timers).kind = "highlight"
    /\ timers' = Tail(timers)
    /\ log' = <<>>
    /\ UNCHANGED <<dom, scroll, h2cLoaded, panelActive, btn, content, rendered, state,
                   origin, invs, submitted, lastDone, scanResult>>

\* setTimeout(() => notification.remove(), 3000)
NotificationTimeout ==
    /\ timers # <<>> /\ Head(timers).kind = "note"
    /\ timers' = Tail(timers)
    /\ log' = <<>>
    /\ UNCHANGED <<dom, scroll, h2cLoaded, panelActive, btn, content, rendered, state,
                   origin, invs, submitted, lastDone, scanResult>>

\* setTimeout(() => this.panel.classList.remove('active'), 1000)
CollapseTimeout ==
    /\ timers # <<>> /\ Head(timers).kind = "collapse"
    /\ timers' = Tail(timers)
    /\ panelActive' = FALSE
    /\ log' = <<>>
    /\ UNCHANGED <<dom, scroll, h2cLoaded, btn, content, rendered, state, origin, invs,
                   submitted, lastDone, scanResult>>

\* the page removes one of its elements
RemoveElement(i) ==
    /\ i \in 1..Len(dom)
    /\ dom' = [j \in 1..(Len(dom) - 1) |-> IF j < i THEN dom[j] ELSE dom[j + 1]]
    /\ invs' = [j \in 1..Len(invs) |->
                    IF invs[j].pc = "fetch" THEN [invs[j] EXCEPT !.stale = TRUE] ELSE invs[j]]
    /\ submitted' = IF content = "actions" THEN [submitted EXCEPT !.stale = TRUE]
                    ELSE submitted
    /\ log' = <<>>
    /\ scanResult' = NoScan
    /\ UNCHANGED <<scroll, h2cLoaded, panelActive, btn, content, rendered, state, origin,
                   lastDone, timers>>

\* the user scrolls the page
Scroll(y) ==
    /\ y # scroll.y
    /\ scroll' = [scroll EXCEPT !.y = y]
    /\ log' = <<>>
    /\ scanResult' = NoScan
    /\ UNCHANGED <<dom, h2cLoaded, panelActive, btn, content, rendered, state, origin,
                   invs, submitted, lastDone, timers>>

(* ------------------------- voice recognition --------------------------- *)
\* this.config.wakeWord
WakeWord == <<"hey", " ", "assistant">>
\* String.prototype.toLowerCase, a transcript being a sequence of words
\* and spaces
LowerWord(w) ==
    CASE w = "Hey" -> "hey"
      [] w = "Assistant" -> "assistant"
      [] OTHER -> w
toLowerCase(s) == [i \in 1..Len(s) |-> LowerWord(s[i])]
\* String.prototype.includes
Includes(s, w) == \E k \in 0..(Len(s) - Len(w)) : SubSeq(s, k + 1, k + Len(w)) = w

\* what the recognizer may hear
Transcripts ==
    {<<"say", " ", "Hey", " ", "Assistant", " ", "now">>, <<"hello", " ", "there">>,
     <<"hey", " ">>, <<"assistant">>}
\* event.results: each result is interim or final and has a transcript
ResultLists ==
    UNION {[1..n -> [isFinal : BOOLEAN, transcript : Transcripts]] : n \in 1..MaxResults}

\* the loop of onresult: the transcripts of the final results from
\* position i (counted from 0) on, concatenated
RECURSIVE FinalTranscript(_, _)
FinalTranscript(results, i) ==
    IF i >= Len(results) THEN <<>>
    ELSE (IF results[i + 1].isFinal THEN results[i + 1].transcript ELSE <<>>)
         \o FinalTranscript(results, i + 1)

\* this.recognition.onresult
onresult(s, results, resultIndex) ==
    With([s EXCEPT !.log = Append(@, Ev("result", NoNode, results, resultIndex, 0))],
         LAMBDA s1 :
      IF Includes(toLowerCase(FinalTranscript(results, resultIndex)), WakeWord)
      THEN togglePanel(s1)
      ELSE s1)

\* the recognizer delivers a result event
RecognitionResult(results, resultIndex) ==
    /\ resultIndex \in 0..(Len(results) - 1)
    /\ \E r \in {onresult(Snap, results, resultIndex)} : ~r.capped /\ Commit(r)
    /\ UNCHANGED Page

\* The click listener of #analyze-btn (lines 140..142) has no action: the
\* button is shown only while the panel is active, opening the panel starts
\* an analysis that disables it, and every analysis that ends detaches it,
\* so it is never both shown and enabled.
Next ==
    \/ AnalyzePageMessage
    \/ TogglePanel
    \/ \E i \in 1..Len(invs) : LoadResolve(i)
    \/ \E i \in 1..Len(invs) : LoadReject(i)
    \/ \E i \in 1..Len(invs) : ShotResolve(i)
    \/ \E i \in 1..Len(invs) : ShotReject(i)
    \/ \E i \in 1..Len(invs) : FetchFail(i)
    \/ \E i \in 1..Len(invs) : \E r \in Responses(i) : Response(i, r)
    \/ \E k \in 1..MaxActions, b \in BOOLEAN, cut \in 0..MaxPending :
          ExecuteAction(k, b, cut)
    \/ HighlightTimeout
    \/ NotificationTimeout
    \/ CollapseTimeout
    \/ \E i \in 1..MaxDom : RemoveElement(i)

Spec == Init /\ [][Next]_vars

(* -------------------- the overlay driven by voice ---------------------- *)
\* In Spec the action TogglePanel stands for every caller of togglePanel.
\* Here the panel is toggled by recognition results only, on an empty page,
\* and the analyses that opening the panel starts run to their end.
InitVoice ==
    /\ dom = <<>>
    /\ h2cLoaded = FALSE
    /\ InitOverlay

NextVoice ==
    \/ \E results \in ResultLists, resultIndex \in 0..(MaxResults - 1) :
          RecognitionResult(results, resultIndex)
    \/ \E i \in 1..Len(invs) : LoadResolve(i)
    \/ \E i \in 1..Len(invs) : ShotResolve(i)
    \/ \E i \in 1..Len(invs) : ShotReject(i)
    \/ \E i \in 1..Len(invs) : \E r \in Responses(i) : Response(i, r)

SpecVoice == InitVoice /\ [][NextVoice]_vars


(* --------------------- the scanner on its own -------------------------- *)
\* every way a candidate can fail the visibility test, and every category
ElInvisible == [BaseEl EXCEPT !.visibility = "hidden", !.attrs = ("id" :> <<"v">>)]
ElTransparent == [BaseEl EXCEPT !.opacity = "0", !.attrs = ("id" :> <<"o">>)]
ElNoWidth == [BaseEl EXCEPT !.width = 0, !.attrs = ("data-testid" :> <<"w">>)]
ElNoHeight == [BaseEl EXCEPT !.height = 0]
\* just below the viewport until the page is scrolled
ElBelow == [BaseEl EXCEPT !.y = InnerHeight, !.attrs = ("id" :> <<"low">>)]
ElDisabled == [BaseEl EXCEPT !.attrs = ("disabled" :> <<>>)]
ElPlainDiv == [BaseEl EXCEPT !.tag = "div"]
ElRoleDiv ==
    [BaseEl EXCEPT !.tag = "div", !.attrs = ("role" :> <<"button">>),
                   !.classes = << <<"card">>, <<"big">> >>]
ElTestId ==
    [BaseEl EXCEPT !.tag = "input", !.textContent = <<>>,
                   !.attrs = ("data-testid" :> <<"q">>) @@ ("placeholder" :> <<"Search">>)]
ScanPool ==
    PagePool \cup {ElA, ElColonClass, ElInvisible, ElTransparent, ElNoWidth, ElNoHeight,
                   ElBelow, ElDisabled, ElPlainDiv, ElRoleDiv, ElTestId}

InitScan ==
    /\ dom \in Doms(ScanPool)
    /\ h2cLoaded = FALSE
    /\ InitOverlay

\* A scan that keeps its array between calls, as it would if elements were
\* a field of the overlay and not a local of captureDomElements.
ScanAccumulating ==
    /\ scanResult' = [valid |-> TRUE,
                      elements |-> scanResult.elements
                                   \o captureDomElements(Document(Snap), scroll),
                      again |-> scanResult.valid]
    /\ log' = <<>>
    /\ UNCHANGED <<dom, scroll, h2cLoaded, panelActive, btn, content, rendered, state,
                   origin, invs, submitted, lastDone, timers>>

\* captureDomElements() on the document as it is
Scan ==
    /\ scanResult' = [valid |-> TRUE, elements |-> captureDomElements(Document(Snap), scroll),
                      again |-> scanResult.valid]
    /\ log' = <<>>
    /\ UNCHANGED <<dom, scroll, h2cLoaded, panelActive, btn, content, rendered, state,
                   origin, invs, submitted, lastDone, timers>>

NextScan ==
    \/ Scan
    \/ \E y \in 0..MaxScroll : Scroll(y)
    \/ \E i \in 1..MaxDom : RemoveElement(i)

SpecScan == InitScan /\ [][NextScan]_vars

(* ------------------- the scanner on long pages ------------------------- *)
\* a page of n buttons, those at the positions in hid not rendered
LongDom(n, hid) ==
    [i \in 1..n |-> [(IF i \in hid THEN ElHidden ELSE ElA) EXCEPT !.node = PageNode(i)]]
\* pages around the cap of the scanner, with hidden buttons at the front
\* and at the cap
LongDoms ==
    {LongDom(n, hid) : n \in (MaxElements - 2)..(MaxElements + MaxExtra),
                       hid \in SUBSET {1, 2, MaxElements}}

InitLong ==
    /\ dom \in LongDoms
    /\ h2cLoaded = FALSE
    /\ InitOverlay

\* long pages are scanned and scrolled; pages of every length around the
\* cap are initial states
NextLong ==
    \/ Scan
    \/ \E y \in 0..MaxScroll : Scroll(y)

SpecLong == InitLong /\ [][NextLong]_vars

(* --------------- the scanner on every kind of attribute ---------------- *)
\* an id or data-testid attribute: absent, empty, or with a value
AttrOpts(v) ==
    {[has |-> FALSE, val |-> <<>>], [has |-> TRUE, val |-> <<>>], [has |-> TRUE, val |-> v]}
AttrsOf(id, testid) ==
    [n \in (IF id.has THEN {"id"} ELSE {}) \cup (IF testid.has THEN {"data-testid"} ELSE {})
        |-> IF n = "id" THEN id.val ELSE testid.val]
ClassOpts == {<<>>, << <<"c">> >>, << <<"c">>, <<"d">> >>}
\* candidates with every combination of id, data-testid and classes
AttrElements ==
    {[BaseEl EXCEPT !.tag = t, !.attrs = AttrsOf(id, testid), !.classes = c] :
        t \in {"button", "input"}, id \in AttrOpts(<<"a">>), testid \in AttrOpts(<<"q">>),
        c \in ClassOpts}
\* a text of one character more than the scanner keeps
LongText == [i \in 1..(TextLimit + 1) |-> "x"]
ElLongText == [BaseEl EXCEPT !.textContent = <<" ">> \o LongText \o <<" ">>]
ElLongLabel ==
    [BaseEl EXCEPT !.tag = "input", !.textContent = <<>>,
                   !.attrs = ("aria-label" :> LongText)]
AttrPool == AttrElements \cup {ElLongText, ElLongLabel}

InitAttr ==
    /\ dom \in Doms(AttrPool)
    /\ h2cLoaded = FALSE
    /\ InitOverlay

SpecAttr == InitAttr /\ [][NextScan]_vars


(* ======================= properties of the scanner ===================== *)
\* the element of the document with identity node
ElementOf(node) ==
    LET doc == Document(Snap)
    IN doc[CHOOSE i \in 1..Len(doc) : doc[i].node = node]

\* the candidates of the document that pass the visibility test, in
\* document order
VisibleCandidates ==
    SelectSeq(Candidates(Document(Snap)), LAMBDA e : IsVisible(e, scroll))

\* C1: a scan of a document with N <= 50 visible candidates returns N
\* descriptors, in document order, and the descriptor at position p has
\* index p (counted from 0 among the visible candidates).
C1_IndexAmongSurvivors ==
    (scanResult.valid /\ Len(VisibleCandidates) <= MaxElements) =>
        /\ Len(scanResult.elements) = Len(VisibleCandidates)
        /\ \A p \in 1..Len(scanResult.elements) :
              /\ scanResult.elements[p].el = VisibleCandidates[p].node
              /\ scanResult.elements[p].index = p - 1

\* C10: no descriptor of a scan refers to an element with display none,
\* visibility hidden, opacity 0, zero width or height, or a box entirely
\* above or below the viewport.
C10_OnlyVisibleScanned ==
    scanResult.valid =>
        \A p \in 1..Len(scanResult.elements) :
            LET e   == ElementOf(scanResult.elements[p].el)
                top == IF e.fixed THEN e.y ELSE e.y - scroll.y
            IN /\ e.display # "none"
               /\ e.visibility # "hidden"
               /\ e.opacity # "0"
               /\ e.width # 0
               /\ e.height # 0
               /\ ~(top >= InnerHeight)
               /\ ~(top + e.height <= 0)

\* a scan has returned descriptors from a page that has a candidate with
\* display none and a candidate scrolled out above the viewport
C10_Witness ==
    /\ scanResult.valid
    /\ Len(scanResult.elements) >= 1
    /\ \E i, j \in 1..Len(dom) :
          /\ MatchesCategory(dom[i]) /\ dom[i].display = "none"
          /\ MatchesCategory(dom[j]) /\ dom[j].display # "none"
          /\ dom[j].height > 0 /\ dom[j].y - scroll.y + dom[j].height <= 0


\* C11: a scan never returns more than 50 descriptors, and of a document
\* with more than 50 visible candidates it returns exactly the first 50 in
\* document order.
C11_FirstFifty ==
    scanResult.valid =>
        /\ Len(scanResult.elements) <= MaxElements
        /\ Len(VisibleCandidates) > MaxElements =>
              /\ Len(scanResult.elements) = MaxElements
              /\ \A p \in 1..MaxElements :
                    scanResult.elements[p].el = VisibleCandidates[p].node

\* a scan of a page with more than 50 visible candidates after a hidden one
C11_Witness ==
    /\ scanResult.valid
    /\ Len(VisibleCandidates) > MaxElements
    /\ dom # <<>> /\ dom[1].display = "none"
    /\ Len(scanResult.elements) = MaxElements

\* what a scan leaves alone: the page and the state of the overlay
ScanFrame ==
    UNCHANGED <<dom, scroll, panelActive, btn, content, rendered, state, invs, timers>>

ChainSelector(e) ==
    IF IdOf(e) # <<>> THEN <<"#">> \o IdOf(e)
    ELSE IF HasAttr(e, "data-testid")
         THEN <<AttrOpen>> \o e.attrs["data-testid"] \o <<AttrClose>>
    ELSE IF e.classes # <<>> THEN <<".">> \o JoinDot(e.classes)
    ELSE <<e.tag>>

\* C13: the selector of every descriptor follows the priority chain: a
\* non-empty id, else a data-testid attribute, else the classes, else the
\* tag name.
C13_SelectorChain ==
    scanResult.valid =>
        \A p \in 1..Len(scanResult.elements) :
            scanResult.elements[p].selector
                = ChainSelector(ElementOf(scanResult.elements[p].el))

\* C17: the text of every descriptor has at most 100 characters.
C17_TextAtMost100 ==
    scanResult.valid =>
        \A p \in 1..Len(scanResult.elements) : Len(scanResult.elements[p].text) <= TextLimit


(* ======================= properties of the executor ==================== *)
\* the entries of log of one kind made by the executeAction call the user
\* started (not by calls nested in its click)
Top(kind) == SelectSeq(log, LAMBDA e : e.ev = kind /\ e.depth = 0)
\* the last step ran executeAction
Ran == log # <<>> /\ log[1].ev \in {"execute", "executeNoIndex"}
\* the last step ran executeAction for an action with an element_index
RanIndexed == log # <<>> /\ log[1].ev = "execute"
Notified(msg) == \E j \in 1..Len(log) : log[j].ev = "notify" /\ log[j].msg = msg

\* every selector of the submitted scan selects exactly one element
SelectorsUnique ==
    \A p \in 1..Len(submitted.scan) :
        /\ ParseSelector(submitted.scan[p].selector).ok
        /\ Len(MatchesOf(Document(Snap), submitted.scan[p].selector)) = 1

\* C2: with the page unchanged since the submitted scan and unique
\* selectors, executeAction clicks exactly the element whose descriptor in
\* the submitted scan has index = the action's element_index.
C2_ClicksSubmittedIndex ==
    (RanIndexed /\ ~submitted.stale /\ SelectorsUnique) =>
        \A p \in 1..Len(submitted.scan) :
            submitted.scan[p].index = log[1].num =>
                /\ Len(Top("click")) = 1
                /\ Top("click")[1].node = submitted.scan[p].el

\* C3: when the page has changed and the fresh scan has at most k
\* descriptors while element_index is k, executeAction clicks nothing and
\* ends with a reported failure.
C3_OutOfRangeFails ==
    (RanIndexed /\ submitted.stale /\ Top("scan") # <<>>
       /\ Top("scan")[1].num <= log[1].num) =>
        /\ \A j \in 1..Len(log) : log[j].ev # "click"
        /\ Notified(FailedMsg)

\* C4: every executeAction run that clicks nothing shows a failure
\* notification, and the rendered action buttons stay in the panel.
C4_NoClickNotifies ==
    (Ran /\ Top("click") = <<>>) =>
        /\ Top("notify") # <<>>
        /\ Top("notify")[1].msg = FailedMsg
        /\ content = "actions" /\ rendered # <<>>

\* C5: executeAction sets the 1 s timer that collapses the panel if and
\* only if it clicked an element.
C5_CollapseIffClick ==
    Ran => (Top("timer") # <<>> <=> Top("click") # <<>>)

(* ===================== properties of the orchestrator ================== *)
\* C6: state.sessionId and state.actions come from the same response, or
\* are both the initial values.
C6_SessionWholesale == origin.sessionId = origin.actions

\* analysis.actions || []
BodyActions(body) == IF body.hasActions THEN body.actions ELSE <<>>

\* C7: once two overlapping analyses have both succeeded, the session and
\* the rendered action list are those of the response that arrived last.
C7_LastResponseWins ==
    (/\ lastDone.inv # 0
     /\ invs[lastDone.inv].pc = "ok"
     /\ \E j \in 1..Len(invs) : j # lastDone.inv /\ invs[j].pc = "ok") =>
        /\ state.sessionId = lastDone.body.session_id
        /\ state.currentPage = "analysis"
        /\ state.actions = BodyActions(lastDone.body)
        /\ rendered = BodyActions(lastDone.body)
        /\ content = IF BodyActions(lastDone.body) = <<>> THEN "empty" ELSE "actions"

\* two analyses overlapped, both succeeded, and the response to the first
\* request arrived after the response to the second
C7_Witness ==
    /\ Len(invs) >= 2
    /\ invs[1].pc = "ok" /\ invs[2].pc = "ok"
    /\ lastDone.inv = 1
    /\ state.sessionId = SessionId(1)
    /\ rendered # <<>>

\* C8: after a failed analysis the panel shows the analyze button enabled
\* with the failed label, and the message naming the backend address.
C8_FailureRestoresAffordance ==
    (lastDone.inv # 0 /\ invs[lastDone.inv].pc = "failed") =>
        /\ content = "error"
        /\ btn.attached
        /\ btn.label = "failed"
        /\ ~btn.disabled

\* C9: no exception escapes analyzeCurrentPage: every invocation ends in
\* success or in its catch block.
C9_NoEscape == \A i \in 1..Len(invs) : invs[i].pc # "escaped"

(* ======================= properties of the highlight =================== *)
\* the highlighted nodes whose box is in the document, given the timers
PresentHighlights(ts) ==
    {j \in 1..Len(ts) : ts[j].kind = "highlight" /\ ts[j].present}

\* the step is the expiry of the timer of a highlight that was replaced
OldHighlightExpires ==
    /\ timers # <<>>
    /\ Head(timers).kind = "highlight" /\ ~Head(timers).present
    /\ Len(timers') = Len(timers) - 1

\* C14: at most one highlight box is in the document, and the expiry of
\* the timer of a replaced highlight removes no other highlight.
C14_OneHighlight ==
    [][/\ Cardinality(PresentHighlights(timers')) <= 1
       /\ OldHighlightExpires =>
             \A j \in PresentHighlights(timers) : timers'[j - 1] = timers[j]]_vars

\* the timer of a replaced highlight is about to expire while a newer
\* highlight is shown
C14_Witness ==
    /\ timers # <<>>
    /\ Head(timers).kind = "highlight" /\ ~Head(timers).present
    /\ PresentHighlights(timers) # {}

(* ==================== properties of voice recognition ================== *)
\* result r is final and its lowercased transcript contains the wake phrase
SegmentHasWake(r) == r.isFinal /\ Includes(toLowerCase(r.transcript), WakeWord)

\* C15: a recognition result event toggles the panel exactly if one of the
\* final segments it delivers contains the wake phrase.
C15_WakeToggles ==
    [][(log' # <<>> /\ log'[1].ev = "result") =>
          ((panelActive' # panelActive) <=>
              \E i \in (log'[1].num + 1)..Len(log'[1].msg) : SegmentHasWake(log'[1].msg[i]))]_vars

(* ================== more properties of the executor ==================== *)
\* C16: executeAction, highlightElement included, leaves state.sessionId,
\* state.currentPage and state.actions as they were.
C16_ExecutorKeepsSession ==
    [][(log' # <<>> /\ log'[1].ev \in {"execute", "executeNoIndex"}) => state' = state]_vars

\* executeAction has clicked an element of the page while a session with
\* actions is stored
C16_Witness ==
    /\ Ran /\ Top("click") # <<>>
    /\ Top("click")[1].node[1] = "page"
    /\ state.actions # <<>> /\ state.currentPage = "analysis"

\* an analysis is in flight: started, and neither succeeded nor failed
InFlight(i) == invs[i].pc \in {"load", "shot", "fetch"}

\* C18: while an analysis is in flight the analyze button is disabled and
\* carries the loading label.
C18_BusyWhileInFlight ==
    (\E i \in 1..Len(invs) : InFlight(i)) => (btn.disabled /\ btn.label = "analyzing")

\* the box of element e in document coordinates, as it is now
CurrentBox(e) ==
    [left |-> IF e.fixed THEN e.x + scroll.x ELSE e.x,
     top |-> IF e.fixed THEN e.y + scroll.y ELSE e.y,
     width |-> e.width, height |-> e.height]

\* the positions in log of the entries of one kind made by the
\* executeAction call the user started
TopAt(lg, kind) == {j \in 1..Len(lg) : lg[j].ev = kind /\ lg[j].depth = 0}

\* C19: an executeAction that clicks an element first draws the highlight
\* at the current box of that element, then clicks it, then shows the
\* confirmation naming the action's label; without a click there is no
\* confirmation.
C19_HighlightClickNotify ==
    [][(log' # <<>> /\ log'[1].ev \in {"execute", "executeNoIndex"}) =>
          /\ TopAt(log', "click") = {} =>
                \A n \in TopAt(log', "notify") : log'[n].msg = FailedMsg
          /\ \A c \in TopAt(log', "click") :
                /\ \E h \in TopAt(log', "highlight") :
                      /\ h < c
                      /\ log'[h].node = log'[c].node
                /\ \E n \in TopAt(log', "notify") :
                      /\ c < n
                      /\ log'[n].msg = <<"Clicked: ">> \o log'[1].msg
                /\ \E j \in 1..Len(timers') :
                      /\ timers'[j].kind = "highlight"
                      /\ timers'[j].node = log'[c].node
                      /\ timers'[j].box = CurrentBox(ElementOf(log'[c].node))]_vars

\* executeAction has clicked the first of two page elements that the
\* selector of the descriptor matches
C19_Witness ==
    /\ Ran /\ Top("click") # <<>>
    /\ Top("click")[1].node = PageNode(1)
    /\ Len(dom) = 2 /\ IdOf(dom[1]) # <<>> /\ IdOf(dom[1]) = IdOf(dom[2])
    /\ Top("notify") # <<>>

\* node is an element of the page, not a control of the overlay
IsPageNode(node) == node[1] = "page"

\* C20: no submitted descriptor refers to a control of the overlay, and an
\* executeAction clicks at most once, only an element of the page, without
\* re-entering executeAction.
C20_NeverActsOnOverlay ==
    /\ \A p \in 1..Len(submitted.scan) : IsPageNode(submitted.scan[p].el)
    /\ Ran =>
          /\ Cardinality({j \in 1..Len(log) : log[j].ev = "click"}) <= 1
          /\ \A j \in 1..Len(log) :
                /\ log[j].ev = "click" => IsPageNode(log[j].node)
                /\ log[j].ev \in {"execute", "executeNoIndex"} => log[j].depth = 0

(* ======================== properties of togglePanel ==================== *)
\* how many times togglePanel was called in the step that made log lg
Toggles(lg) == Cardinality({j \in 1..Len(lg) : lg[j].ev = "toggle"})

\* state.currentPage holds no analysis
NoAnalysisStored == state.currentPage \in {"null", "undefined"}

\* calling togglePanel twice in a row gives back the visibility of now
DoubleToggleRestores ==
    LET r  == togglePanel(Snap)
        rr == togglePanel(r)
    IN (~r.capped /\ ~rr.capped) => (r.panelActive # panelActive /\ rr.panelActive = panelActive)

\* C21: every call of togglePanel flips the visibility of the panel, two
\* calls in a row restore it, a call starts an analysis exactly when it
\* opens the panel while no analysis is stored, and an analysis is started
\* by nothing but such a call or an analyzePage message.
C21_ToggleContract ==
    [][/\ DoubleToggleRestores'
       /\ Toggles(log') = 1 =>
             /\ panelActive' # panelActive
             /\ Len(invs') > Len(invs) <=> (~panelActive /\ NoAnalysisStored)
       /\ Len(invs') > Len(invs) => (Toggles(log') >= 1 \/ AnalyzePageMessage)]_vars

\* togglePanel has just opened the panel, an analysis being stored, without
\* starting another
C21_Witness ==
    /\ log # <<>> /\ log[1].ev = "toggle"
    /\ panelActive
    /\ state.currentPage = "analysis"
    /\ Len(invs) = 1 /\ invs[1].pc = "ok"

====
